---- MODULE Spec2Model ----
(***************************************************************************)
(* Model of GoogleSheetsPivotReporterOAuth                                 *)
(* (src/scheduled-google-sheets-reporter.js): the extraction,              *)
(* normalisation and aggregation pipeline of fetchAllSheetsData and        *)
(* generateHTMLReport.                                                     *)
(*                                                                         *)
(* A JavaScript string is a sequence of one-character strings, so that     *)
(* trim, toLowerCase, includes and the two regular expressions are         *)
(* computed character by character.  Array indices keep the JavaScript     *)
(* convention: 0-based, -1 for "not found".                                *)
(***************************************************************************)
EXTENDS Integers, Sequences, FiniteSets, TLC

VARIABLES
    allSheetTitles,   \* metadata.data.sheets.map(s => s.properties.title)
    valueRanges,      \* batchResponse.data.valueRanges, as the grid of each
    allData,          \* this.allData
    sheetSummaries,   \* this.sheetSummaries
    indexSheetRows,   \* this.indexSheetRows
    report,           \* what generateHTMLReport computed for the template
    pc,               \* position of the entry point
    env,              \* process.env, process.argv and the files and services
                      \* the run finds
    sheets,           \* this.sheets is not null
    tokenFile         \* google-token.json

vars == <<allSheetTitles, valueRanges, allData, sheetSummaries,
          indexSheetRows, report, pc, env, sheets, tokenFile>>

\* ------------------------------------------------------------------------
\* Bounds of the model
\* ------------------------------------------------------------------------

\* Largest number of rows in the whole spreadsheet (all sheets together).
MaxTotalRows == 4

\* ------------------------------------------------------------------------
\* JavaScript values
\* ------------------------------------------------------------------------

\* this.indexSheetRows: null, or the rows of the index sheet.
Null == [isNull |-> TRUE, rows |-> <<>>]
NotNull(rows) == [isNull |-> FALSE, rows |-> rows]

\* The empty string ''.
EmptyString == <<>>

\* Characters String.prototype.trim removes (those the inputs use).
WhiteSpace == {" ", "\t", "\n"}

\* Decimal digits, \d of the regular expressions.
Digits == {"0", "1", "2", "3", "4", "5", "6", "7", "8", "9"}

\* toLowerCase of one character.
LowerChar(c) ==
    CASE c = "A" -> "a" [] c = "B" -> "b" [] c = "C" -> "c" [] c = "D" -> "d"
      [] c = "E" -> "e" [] c = "F" -> "f" [] c = "G" -> "g" [] c = "H" -> "h"
      [] c = "I" -> "i" [] c = "J" -> "j" [] c = "K" -> "k" [] c = "L" -> "l"
      [] c = "M" -> "m" [] c = "N" -> "n" [] c = "O" -> "o" [] c = "P" -> "p"
      [] c = "Q" -> "q" [] c = "R" -> "r" [] c = "S" -> "s" [] c = "T" -> "t"
      [] c = "U" -> "u" [] c = "V" -> "v" [] c = "W" -> "w" [] c = "X" -> "x"
      [] c = "Y" -> "y" [] c = "Z" -> "z" [] OTHER -> c

\* String.prototype.toLowerCase
toLowerCase(s) == [i \in 1..Len(s) |-> LowerChar(s[i])]

\* String.prototype.includes
includes(s, sub) ==
    \E i \in 0..(Len(s) - Len(sub)) : SubSeq(s, i + 1, i + Len(sub)) = sub

\* The least and the greatest element of a non-empty set of integers.
Min(S) == CHOOSE x \in S : \A y \in S : x <= y
Max(S) == CHOOSE x \in S : \A y \in S : y <= x

\* The result of findIndex when hits are the indices that satisfy the
\* predicate: the least of them, -1 when there is none.
firstIndex(hits) == IF hits = {} THEN -1 ELSE Min(hits)

\* s from its first to its last character of keep.
span(s, keep) ==
    IF keep = {} THEN EmptyString ELSE SubSeq(s, Min(keep), Max(keep))

\* String.prototype.trim
trim(s) == span(s, {i \in 1..Len(s) : s[i] \notin WhiteSpace})

\* What a template shows for the value undefined.
Undefined == <<"u", "n", "d", "e", "f", "i", "n", "e", "d">>

\* arr[i] without the default: undefined when the index is out of range.
CellOrUndefined(arr, i) ==
    IF i >= 0 /\ i < Len(arr) THEN arr[i + 1] ELSE Undefined

\* arr[i] || '' : the element at a 0-based index, '' when the index is out of
\* range (including -1) or the element is the empty string.
CellOrEmpty(arr, i) ==
    IF i >= 0 /\ i < Len(arr) THEN arr[i + 1] ELSE EmptyString

\* Array.prototype.findIndex over the cells of a row, for the predicate
\* cell => cell && cell.toLowerCase().includes(label).
findLabelIndex(row, label) ==
    firstIndex({i \in 0..(Len(row) - 1) :
                   /\ row[i + 1] # EmptyString
                   /\ includes(toLowerCase(row[i + 1]), label)})

\* ------------------------------------------------------------------------
\* String literals of the source
\* ------------------------------------------------------------------------

LblTester == <<"t", "e", "s", "t", "e", "r">>
LblOverallStatus ==
    <<"o", "v", "e", "r", "a", "l", "l", " ", "s", "t", "a", "t", "u", "s">>
LblDefect == <<"d", "e", "f", "e", "c", "t">>
LblComment == <<"c", "o", "m", "m", "e", "n", "t">>
LblIteration == <<"i", "t", "e", "r", "a", "t", "i", "o", "n">>
LblIndex == <<"i", "n", "d", "e", "x">>
LblItr == <<"i", "t", "r">>

Passed == <<"P", "a", "s", "s", "e", "d">>
Failed == <<"F", "a", "i", "l", "e", "d">>
Blocked == <<"B", "l", "o", "c", "k", "e", "d">>
InProgress == <<"I", "n", " ", "P", "r", "o", "g", "r", "e", "s", "s">>
NotStarted == <<"N", "o", "t", " ", "S", "t", "a", "r", "t", "e", "d">>

\* const statusOrder
statusOrder == <<Passed, Failed, Blocked, InProgress, NotStarted>>

\* The iteration label counted for a Record whose label is empty.
DefaultIteration == <<"1">>

\* ------------------------------------------------------------------------
\* The two regular expressions on the iteration
\* ------------------------------------------------------------------------

\* Whether "itr" (case-insensitive) stands at 1-based position p of s.
ItrAt(s, p) ==
    /\ p + 2 <= Len(s)
    /\ toLowerCase(SubSeq(s, p, p + 2)) = LblItr

\* The 1-based position where the digits of /itr[- ]?\d+/ start when the
\* expression matches at p, 0 when it does not match there.
DigitsStart(s, p) ==
    IF ~ItrAt(s, p) THEN 0
    ELSE IF p + 3 <= Len(s) /\ s[p + 3] \in Digits THEN p + 3
    ELSE IF /\ p + 4 <= Len(s)
            /\ s[p + 3] \in {"-", " "}
            /\ s[p + 4] \in Digits THEN p + 4
    ELSE 0

\* The last position of the run of digits that starts at position d.
DigitsEnd(s, d) ==
    CHOOSE e \in d..Len(s) :
        /\ \A k \in d..e : s[k] \in Digits
        /\ (e = Len(s) \/ s[e + 1] \notin Digits)

\* sheetName.match(/(itr[- ]?\d+)/i): match[1] of the leftmost match, or
\* '' when there is none (match ? match[1] : '').
matchItr(sheetName) ==
    LET p == firstIndex({q \in 1..Len(sheetName) : DigitsStart(sheetName, q) # 0})
    IN  IF p = -1 THEN EmptyString
        ELSE SubSeq(sheetName, p, DigitsEnd(sheetName, DigitsStart(sheetName, p)))

\* iteration.replace(/itr[- ]?/i, ''): the leftmost "itr" with the separator
\* that follows it, wherever it stands in the string, is cut out.
replaceItr(s) ==
    LET p == firstIndex({q \in 1..Len(s) : ItrAt(s, q)})
        n == IF p + 3 <= Len(s) /\ s[p + 3] \in {"-", " "} THEN 4 ELSE 3
    IN  IF p = -1 THEN s
        ELSE SubSeq(s, 1, p - 1) \o SubSeq(s, p + n, Len(s))

\* ------------------------------------------------------------------------
\* fetchAllSheetsData: one sheet
\* ------------------------------------------------------------------------

\* isIndexSheet comparing the title as it is written.
isIndexSheetCaseSensitive(sheetName) == sheetName = LblIndex

\* sheetName.toLowerCase() === 'index'
isIndexSheet(sheetName) == toLowerCase(sheetName) = LblIndex

\* headerRowIdx taking the last row with a "tester" cell.
headerRowIdxLast(rows) ==
    LET hits == {i \in 0..(Len(rows) - 1) : findLabelIndex(rows[i + 1], LblTester) # -1}
    IN  IF hits = {} THEN -1 ELSE CHOOSE i \in hits : \A j \in hits : j <= i

\* rows.findIndex(row => row.some(cell => cell &&
\*                cell.toLowerCase().includes('tester')))
headerRowIdx(rows) ==
    firstIndex({i \in 0..(Len(rows) - 1) :
                   findLabelIndex(rows[i + 1], LblTester) # -1})

testerIdx(header) == findLabelIndex(header, LblTester)
statusIdx(header) == findLabelIndex(header, LblOverallStatus)
defectIdx(header) == findLabelIndex(header, LblDefect)

\* commentsIdx looking only at the cells that are not the defect column.
commentsIdxOfOtherCell(header) ==
    firstIndex({i \in 0..(Len(header) - 1) :
                   /\ i # defectIdx(header)
                   /\ header[i + 1] # EmptyString
                   /\ includes(toLowerCase(header[i + 1]), LblComment)})

commentsIdx(header) == findLabelIndex(header, LblComment)
iterationIdx(header) == findLabelIndex(header, LblIteration)

\* The five column indices found in the header row.
columnsOf(header) ==
    [testerIdx |-> testerIdx(header), statusIdx |-> statusIdx(header),
     defectIdx |-> defectIdx(header), commentsIdx |-> commentsIdx(header),
     iterationIdx |-> iterationIdx(header)]

\* statusOf with the default applied to the untrimmed cell only.
statusOfNoTrim(rawStatus) ==
    IF rawStatus # EmptyString THEN trim(rawStatus) ELSE NotStarted

\* const status = rawStatus.trim() ? rawStatus.trim() : 'Not Started'
statusOf(rawStatus) ==
    IF trim(rawStatus) # EmptyString THEN trim(rawStatus) ELSE NotStarted

\* rawIteration falling back to the sheet name when the cell is empty.
rawIterationWithFallback(sheetName, cols, row) ==
    IF cols.iterationIdx # -1 /\ CellOrEmpty(row, cols.iterationIdx) # EmptyString
    THEN CellOrEmpty(row, cols.iterationIdx)
    ELSE matchItr(sheetName)

\* The iteration before the final replace: the cell of the iteration column
\* when the header has one, else the match in the sheet name.
rawIteration(sheetName, cols, row) ==
    IF cols.iterationIdx # -1
    THEN CellOrEmpty(row, cols.iterationIdx)
    ELSE matchItr(sheetName)

\* iteration = iteration.replace(/itr[- ]?/i, '').trim()
iterationLabel(raw) == trim(replaceItr(raw))

\* skipRow without the trim: only the empty string counts as no tester.
skipRowNoTrim(tester) == tester = EmptyString

\* if (!tester.trim()) continue
skipRow(tester) == trim(tester) = EmptyString

\* The Record pushed for one data row.
recordOf(sheetName, cols, row) ==
    [tester        |-> CellOrEmpty(row, cols.testerIdx),
     jiraTicket    |-> sheetName,
     iteration     |-> iterationLabel(rawIteration(sheetName, cols, row)),
     overallStatus |-> statusOf(CellOrEmpty(row, cols.statusIdx)),
     defect        |-> IF cols.defectIdx # -1
                       THEN CellOrEmpty(row, cols.defectIdx) ELSE EmptyString,
     comments      |-> IF cols.commentsIdx # -1
                       THEN CellOrEmpty(row, cols.commentsIdx) ELSE EmptyString]

\* for (let i = headerRowIdx + 1; i < rows.length; i++): the Records of rows
\* i..rows.length-1 (0-based), in row order.
RECURSIVE dataRows(_, _, _, _)
dataRows(sheetName, rows, cols, i) ==
    IF i >= Len(rows) THEN <<>>
    ELSE LET row == rows[i + 1]
             rest == dataRows(sheetName, rows, cols, i + 1)
         IN  IF skipRow(CellOrEmpty(row, cols.testerIdx)) THEN rest
             ELSE <<recordOf(sheetName, cols, row)>> \o rest

\* What the callback of the forEach does for one non-index sheet: the
\* summary it pushes and the Records it pushes.
processSheet(sheetName, rows) ==
    LET h == headerRowIdx(rows)
    IN  IF Len(rows) = 0 \/ h = -1
        THEN [summary |-> [name |-> sheetName, rowCount |-> 0,
                           headerFound |-> FALSE],
              records |-> <<>>]
        ELSE [summary |-> [name |-> sheetName,
                           rowCount |-> Len(rows) - h - 1,
                           headerFound |-> TRUE],
              records |-> dataRows(sheetName, rows, columnsOf(rows[h + 1]), h + 1)]

\* ------------------------------------------------------------------------
\* fetchAllSheetsData: the forEach over batchResponse.data.valueRanges
\* ------------------------------------------------------------------------

\* fetchStart without this.indexSheetRows = null.
fetchStartKeepingIndex ==
    [threw |-> FALSE, allData |-> <<>>, sheetSummaries |-> <<>>,
     indexSheetRows |-> indexSheetRows]

\* The state of the forEach before any callback ran: const allData = [],
\* this.sheetSummaries = [], this.indexSheetRows = null.
fetchStart ==
    [threw |-> FALSE, allData |-> <<>>, sheetSummaries |-> <<>>,
     indexSheetRows |-> Null]

\* The callback for valueRanges[idx] applied to the state acc of the loop.
\* allSheetTitles[idx] is undefined past the end of the titles, and
\* undefined.toLowerCase() throws a TypeError out of the forEach.
processValueRange(acc, titles, ranges, idx) ==
    IF idx >= Len(titles) THEN [acc EXCEPT !.threw = TRUE]
    ELSE LET sheetName == titles[idx + 1]
             rows == ranges[idx + 1]
         IN  IF isIndexSheet(sheetName)
             THEN IF Len(rows) > 1
                  THEN [acc EXCEPT !.indexSheetRows = NotNull(rows)]
                  ELSE acc
             ELSE LET sheet == processSheet(sheetName, rows)
                  IN  [acc EXCEPT
                         !.sheetSummaries = Append(@, sheet.summary),
                         !.allData = @ \o sheet.records]

\* The forEach from callback idx on.
RECURSIVE forEachValueRange(_, _, _, _)
forEachValueRange(acc, titles, ranges, idx) ==
    IF idx >= Len(ranges) \/ acc.threw THEN acc
    ELSE forEachValueRange(processValueRange(acc, titles, ranges, idx),
                           titles, ranges, idx + 1)

\* ------------------------------------------------------------------------
\* generateHTMLReport: objects created with {}
\* ------------------------------------------------------------------------

\* Names every object literal {} inherits from Object.prototype.
ObjectPrototypeKeys ==
    {<<"c", "o", "n", "s", "t", "r", "u", "c", "t", "o", "r">>,
     <<"t", "o", "S", "t", "r", "i", "n", "g">>,
     <<"v", "a", "l", "u", "e", "O", "f">>,
     <<"t", "o", "L", "o", "c", "a", "l", "e", "S", "t", "r", "i", "n", "g">>,
     <<"h", "a", "s", "O", "w", "n", "P", "r", "o", "p", "e", "r", "t", "y">>,
     <<"i", "s", "P", "r", "o", "t", "o", "t", "y", "p", "e", "O", "f">>,
     <<"p", "r", "o", "p", "e", "r", "t", "y", "I", "s", "E", "n", "u", "m", "e", "r", "a", "b", "l", "e">>,
     <<"_", "_", "d", "e", "f", "i", "n", "e", "G", "e", "t", "t", "e", "r", "_", "_">>,
     <<"_", "_", "d", "e", "f", "i", "n", "e", "S", "e", "t", "t", "e", "r", "_", "_">>,
     <<"_", "_", "l", "o", "o", "k", "u", "p", "G", "e", "t", "t", "e", "r", "_", "_">>,
     <<"_", "_", "l", "o", "o", "k", "u", "p", "S", "e", "t", "t", "e", "r", "_", "_">>,
     <<"_", "_", "p", "r", "o", "t", "o", "_", "_">>}

\* The accessor property of Object.prototype: assigning a string to it
\* creates no own property.
ProtoAccessor == <<"_", "_", "p", "r", "o", "t", "o", "_", "_">>

\* A number n as a value held in statusCounts.
Num(n) == [type |-> "number", n |-> n, key |-> EmptyString]

\* The value inherited under key, concatenated with n times "1"
\* (inherited + 1 is a string, and string + 1 appends "1").
NotANumber(key, n) == [type |-> "other", n |-> n, key |-> key]

\* obj[key] || 0 for an object obj = {} holding the own properties own.
getOrZero(own, key) ==
    IF key \in DOMAIN own THEN own[key]
    ELSE IF key \in ObjectPrototypeKeys THEN NotANumber(key, 0)
    ELSE Num(0)

\* value + 1
plusOne(v) == [v EXCEPT !.n = @ + 1]

\* obj[key] = (obj[key] || 0) + 1
increment(own, key) ==
    IF key = ProtoAccessor THEN own
    ELSE [k \in (DOMAIN own) \cup {key} |->
            IF k = key THEN plusOne(getOrZero(own, key)) ELSE own[k]]

\* ------------------------------------------------------------------------
\* generateHTMLReport: statusList
\* ------------------------------------------------------------------------

\* The values a Set holds after adding the elements of seq in order: each
\* distinct value once, in the order of first insertion.
RECURSIVE insertionOrder(_)
insertionOrder(seq) ==
    IF seq = <<>> THEN <<>>
    ELSE LET front == insertionOrder(SubSeq(seq, 1, Len(seq) - 1))
             last == seq[Len(seq)]
         IN  IF \E i \in 1..Len(front) : front[i] = last THEN front
             ELSE Append(front, last)

\* The elements of seq that satisfy the membership in keep, in order.
RECURSIVE filterIn(_, _)
filterIn(seq, keep) ==
    IF seq = <<>> THEN <<>>
    ELSE IF Head(seq) \in keep THEN <<Head(seq)>> \o filterIn(Tail(seq), keep)
    ELSE filterIn(Tail(seq), keep)

\* The elements of seq that are not in drop, in order.
RECURSIVE filterOut(_, _)
filterOut(seq, drop) ==
    IF seq = <<>> THEN <<>>
    ELSE IF Head(seq) \notin drop THEN <<Head(seq)>> \o filterOut(Tail(seq), drop)
    ELSE filterOut(Tail(seq), drop)

\* new Set(this.allData.map(row => row.overallStatus).filter(s => s))
statusSet(data) ==
    insertionOrder(
        filterOut([i \in 1..Len(data) |-> data[i].overallStatus], {EmptyString}))

\* statusList without the canonical order: the statuses as first seen.
statusListAsSeen(data) == statusSet(data)

\* statusOrder.filter(s => statusSet.has(s)), then every other member of
\* statusSet pushed in the Set's iteration order.
statusList(data) ==
    LET present == {statusSet(data)[i] : i \in 1..Len(statusSet(data))}
        canonical == filterIn(statusOrder, present)
    IN  canonical \o
        filterOut(statusSet(data), {canonical[i] : i \in 1..Len(canonical)})

\* ------------------------------------------------------------------------
\* generateHTMLReport: grouping by tester
\* ------------------------------------------------------------------------

\* The position of the group with own key key in grouped, 0 when there is none.
groupPos(groups, key) ==
    IF \E i \in 1..Len(groups) : groups[i].tester = key
    THEN CHOOSE i \in 1..Len(groups) : groups[i].tester = key
    ELSE 0

\* The position of ticket in a ticketIterations Map, 0 when it has no entry.
ticketPos(ticketIterations, ticket) ==
    IF \E i \in 1..Len(ticketIterations) : ticketIterations[i].ticket = ticket
    THEN CHOOSE i \in 1..Len(ticketIterations) : ticketIterations[i].ticket = ticket
    ELSE 0

\* addIteration adding the label as it is, the empty one too.
addIterationAsIs(ticketIterations, row) ==
    LET pos == ticketPos(ticketIterations, row.jiraTicket)
    IN  IF pos = 0
        THEN Append(ticketIterations,
                    [ticket |-> row.jiraTicket, iterations |-> {row.iteration}])
        ELSE [ticketIterations EXCEPT ![pos].iterations = @ \cup {row.iteration}]

\* ticketIterations.get(ticket).add(row.iteration || '1'), after the entry
\* for ticket was created with an empty Set when it was missing.
addIteration(ticketIterations, row) ==
    LET label == IF row.iteration = EmptyString THEN DefaultIteration
                 ELSE row.iteration
        pos == ticketPos(ticketIterations, row.jiraTicket)
    IN  IF pos = 0
        THEN Append(ticketIterations,
                    [ticket |-> row.jiraTicket, iterations |-> {label}])
        ELSE [ticketIterations EXCEPT ![pos].iterations = @ \cup {label}]

\* { tester: key, rows: [], statusCounts: {}, ticketIterations: new Map() }
newGroup(key) ==
    [tester |-> key, rows |-> <<>>, statusCounts |-> <<>>,
     ticketIterations |-> <<>>]

\* The three updates of grouped[key] for one row.
addToGroup(group, row) ==
    [group EXCEPT
        !.rows = Append(@, row),
        !.statusCounts = increment(@, row.overallStatus),
        !.ticketIterations = addIteration(@, row)]

\* The callback of this.allData.forEach for one row.  grouped = {} inherits
\* the properties of Object.prototype: for such a key !grouped[key] is false
\* although grouped has no group of that name, and grouped[key].rows.push
\* throws a TypeError.
groupRow(acc, row) ==
    LET key == trim(row.tester)
        pos == groupPos(acc.groups, key)
    IN  IF key = EmptyString THEN acc
        ELSE IF pos # 0
        THEN [acc EXCEPT !.groups[pos] = addToGroup(@, row)]
        ELSE IF key \in ObjectPrototypeKeys
        THEN [acc EXCEPT !.threw = TRUE]
        ELSE [acc EXCEPT !.groups = Append(@, addToGroup(newGroup(key), row))]

\* this.allData.forEach(row => {...}) over the rows from position i on.
RECURSIVE grouped(_, _, _)
grouped(acc, data, i) ==
    IF i > Len(data) \/ acc.threw THEN acc
    ELSE grouped(groupRow(acc, data[i]), data, i + 1)

\* ------------------------------------------------------------------------
\* generateHTMLReport: the order of the testers
\* ------------------------------------------------------------------------

\* The order in which localeCompare ranks the characters of lower-case
\* names: white space, punctuation, digits, letters.
CollationOrder ==
    <<"\t", "\n", " ", "_", "-", ".",
      "0", "1", "2", "3", "4", "5", "6", "7", "8", "9",
      "a", "b", "c", "d", "e", "f", "g", "h", "i", "j", "k", "l", "m",
      "n", "o", "p", "q", "r", "s", "t", "u", "v", "w", "x", "y", "z">>

CollationRank(c) ==
    IF \E i \in 1..Len(CollationOrder) : CollationOrder[i] = c
    THEN CHOOSE i \in 1..Len(CollationOrder) : CollationOrder[i] = c
    ELSE 0

\* a.localeCompare(b) < 0, for lower-case a and b.
RECURSIVE localeLess(_, _)
localeLess(a, b) ==
    IF b = <<>> THEN FALSE
    ELSE IF a = <<>> THEN TRUE
    ELSE IF CollationRank(Head(a)) # CollationRank(Head(b))
    THEN CollationRank(Head(a)) < CollationRank(Head(b))
    ELSE localeLess(Tail(a), Tail(b))

\* insertSorted for a sort() without comparator: the names are compared as
\* written, and a capital letter comes before every small one.
RECURSIVE insertSortedAsWritten(_, _)
insertSortedAsWritten(names, name) ==
    IF names = <<>> THEN <<name>>
    ELSE IF localeLess(name, Head(names))
    THEN <<name>> \o names
    ELSE <<Head(names)>> \o insertSortedAsWritten(Tail(names), name)

\* names with name inserted after every element that does not compare
\* greater than it (the sort is stable).
RECURSIVE insertSorted(_, _)
insertSorted(names, name) ==
    IF names = <<>> THEN <<name>>
    ELSE IF localeLess(toLowerCase(name), toLowerCase(Head(names)))
    THEN <<name>> \o names
    ELSE <<Head(names)>> \o insertSorted(Tail(names), name)

\* Object.keys(grouped).sort((a, b) =>
\*     a.toLowerCase().localeCompare(b.toLowerCase()))
RECURSIVE sortedTesters(_)
sortedTesters(names) ==
    IF names = <<>> THEN <<>>
    ELSE insertSorted(sortedTesters(SubSeq(names, 1, Len(names) - 1)),
                      names[Len(names)])

\* ------------------------------------------------------------------------
\* generateHTMLReport: the rows of the pivot table and the chart data
\* ------------------------------------------------------------------------

\* uniqueTicketCount counting the group's rows.
uniqueTicketCountOfRows(group) == Len(group.rows)

\* const uniqueTicketCount = group.ticketIterations.size
uniqueTicketCount(group) == Len(group.ticketIterations)

\* The element of data built for one group.
dataRow(group, statuses) ==
    [testerName |-> group.tester,
     statusCounts |-> [i \in 1..Len(statuses) |->
                          getOrZero(group.statusCounts, statuses[i])],
     total |-> Len(group.rows),
     uniqueTicketCount |-> uniqueTicketCount(group),
     ticketDetails |-> [i \in 1..Len(group.ticketIterations) |->
                          [ticket |-> group.ticketIterations[i].ticket,
                           count |-> Cardinality(group.ticketIterations[i].iterations)]]]

\* statusCounts counting the testers that have the status.
statusCountsOfTesters(data, statuses) ==
    [i \in 1..Len(statuses) |->
        Cardinality({trim(data[j].tester) : j \in
            {j \in 1..Len(data) : data[j].overallStatus = statuses[i]}})]

\* statusList.map(status =>
\*     this.allData.filter(row => row.overallStatus === status).length)
statusCounts(data, statuses) ==
    [i \in 1..Len(statuses) |->
        Cardinality({j \in 1..Len(data) : data[j].overallStatus = statuses[i]})]

\* ------------------------------------------------------------------------
\* generateHTMLReport: the index of stories
\* ------------------------------------------------------------------------

LblTestScenario ==
    <<"t", "e", "s", "t", " ", "s", "c", "e", "n", "a", "r", "i", "o">>
LblTestExecution ==
    <<"t", "e", "s", "t", " ", "e", "x", "e", "c", "u", "t", "i", "o", "n">>
LblTestStory == <<"t", "e", "s", "t", " ", "s", "t", "o", "r", "y">>
LblDescription == <<"d", "e", "s", "c", "r", "i", "p", "t", "i", "o", "n">>
LblStatus == <<"s", "t", "a", "t", "u", "s">>

\* let testScenarioIdx = 0, testExecutionIdx = 1, testStoryIdx = 3,
\*     descIdx = 2, statusIdx = 4
FallbackTestScenarioIdx == 0
FallbackTestExecutionIdx == 1
FallbackTestStoryIdx == 3
FallbackDescIdx == 2
FallbackStatusIdx == 4

\* The index variable never assigned by header.forEach.
assignedIndexInitial(hits, initial) == initial

\* The value of an index variable after header.forEach((cell, i) => {
\* if (lc.includes(label)) idx = i }): every matching cell assigns, so the
\* last one stays; the initial value when no cell matches.
assignedIndex(hits, initial) == IF hits = {} THEN initial ELSE Max(hits)

indexColumn(header, label, initial) ==
    assignedIndex({i \in 0..(Len(header) - 1) :
                      includes(toLowerCase(header[i + 1]), label)}, initial)

\* The five column indices of the index sheet.
indexColumnsOf(header) ==
    [testScenarioIdx  |-> indexColumn(header, LblTestScenario, FallbackTestScenarioIdx),
     testExecutionIdx |-> indexColumn(header, LblTestExecution, FallbackTestExecutionIdx),
     testStoryIdx     |-> indexColumn(header, LblTestStory, FallbackTestStoryIdx),
     descIdx          |-> indexColumn(header, LblDescription, FallbackDescIdx),
     statusIdx        |-> indexColumn(header, LblStatus, FallbackStatusIdx)]

\* row.some(cell => cell)
someCell(row) == \E i \in 1..Len(row) : row[i] # EmptyString

\* bodyRows keeping the empty rows too.
bodyRowsUnfiltered(indexRows) == Tail(indexRows)

\* this.indexSheetRows.slice(1).filter(row => row.some(cell => cell))
bodyRows(indexRows) == SelectSeq(Tail(indexRows), someCell)

\* bodyRows.forEach(row => { const status = row[statusIdx] || '';
\*   if (status.trim()) statusCountsMap[status] = (statusCountsMap[status] || 0) + 1 })
\* for the rows from position i on; statusCountsMap = {} is an object literal.
RECURSIVE statusCountsMap(_, _, _, _)
statusCountsMap(own, body, statusIdxOfIndex, i) ==
    IF i > Len(body) THEN own
    ELSE LET status == CellOrEmpty(body[i], statusIdxOfIndex)
         IN  statusCountsMap(IF trim(status) # EmptyString
                             THEN increment(own, status) ELSE own,
                             body, statusIdxOfIndex, i + 1)

\* The cells shown for one row of the index table.
indexEntry(cols, row) ==
    [testScenario  |-> CellOrEmpty(row, cols.testScenarioIdx),
     testExecution |-> CellOrEmpty(row, cols.testExecutionIdx),
     testStory     |-> CellOrEmpty(row, cols.testStoryIdx),
     description   |-> CellOrEmpty(row, cols.descIdx),
     status        |-> CellOrEmpty(row, cols.statusIdx)]

\* let indexStoriesTable = '': the report has no index of stories.
NoIndexStories ==
    [shown |-> FALSE, bodyRows |-> <<>>, entries |-> <<>>,
     statusCountsMap |-> <<>>]

\* if (this.indexSheetRows?.length > 1) { ... indexStoriesTable = `...` }
indexStoriesTable(indexRows) ==
    IF indexRows.isNull \/ ~(Len(indexRows.rows) > 1) THEN NoIndexStories
    ELSE LET body == bodyRows(indexRows.rows)
             cols == indexColumnsOf(indexRows.rows[1])
         IN  [shown |-> TRUE,
              bodyRows |-> body,
              entries |-> [i \in 1..Len(body) |-> indexEntry(cols, body[i])],
              statusCountsMap |-> statusCountsMap(<<>>, body, cols.statusIdx, 1)]

\* ------------------------------------------------------------------------
\* generateHTMLReport: the detail blocks and the status distribution
\* ------------------------------------------------------------------------

\* group.rows.filter(r => r.overallStatus === status)
rowsOfStatus(rows, status) ==
    LET Has(r) == r.overallStatus = status
    IN  SelectSeq(rows, Has)

\* statusOrder.flatMap(status =>
\*     group.rows.filter(r => r.overallStatus === status)), from status i on.
RECURSIVE sortedRows(_, _)
sortedRows(rows, i) ==
    IF i > Len(statusOrder) THEN <<>>
    ELSE rowsOfStatus(rows, statusOrder[i]) \o sortedRows(rows, i + 1)

\* The block of aggregateBlocks built for one element of data.
aggregateBlock(group) ==
    [testerName |-> group.tester, sortedRows |-> sortedRows(group.rows, 1)]

\* statusCounts.reduce((a, b) => a + b, 0), over the first n counts.
RECURSIVE reduceSum(_, _)
reduceSum(counts, n) ==
    IF n = 0 THEN 0 ELSE reduceSum(counts, n - 1) + counts[n]

\* toFixed1 cutting the digits after the first decimal.
toFixed1Truncating(count, total) == (count * 1000) \div total

\* ((count / total) * 100).toFixed(1) as a number of tenths of a percent:
\* the nearest tenth, the larger one when two are equally near.
toFixed1(count, total) == (count * 2000 + total) \div (2 * total)

\* const percent = total > 0 ? ((count / total) * 100).toFixed(1) : 0
percent(count, total) ==
    IF total > 0 THEN toFixed1(count, total) ELSE 0

\* The "100%" written in the Total line of the summary, in tenths.
TotalLinePercent == 1000

\* The report before generateHTMLReport ran.
NoReport ==
    [status |-> "none", statusList |-> <<>>, grouped |-> <<>>,
     sortedTesters |-> <<>>, data |-> <<>>, statusCounts |-> <<>>,
     indexStoriesTable |-> NoIndexStories, testerOptions |-> <<>>,
     aggregateBlocks |-> <<>>, pivotTableRows |-> <<>>,
     percents |-> <<>>, total |-> 0, totalLinePercent |-> 0]

\* What generateHTMLReport computes from this.allData: the model handed to
\* the template, or the TypeError thrown while grouping.
generateHTMLReport(data, indexRows) ==
    LET statuses == statusList(data)
        g == grouped([threw |-> FALSE, groups |-> <<>>], data, 1)
        names == sortedTesters([i \in 1..Len(g.groups) |-> g.groups[i].tester])
        counts == statusCounts(data, statuses)
        sorted == [i \in 1..Len(names) |-> g.groups[groupPos(g.groups, names[i])]]
    IN  IF g.threw THEN [NoReport EXCEPT !.status = "threw"]
        ELSE [status |-> "ok",
              statusList |-> statuses,
              grouped |-> g.groups,
              sortedTesters |-> names,
              data |-> [i \in 1..Len(names) |-> dataRow(sorted[i], statuses)],
              statusCounts |-> counts,
              indexStoriesTable |-> indexStoriesTable(indexRows),
              testerOptions |-> names,
              aggregateBlocks |-> [i \in 1..Len(names) |-> aggregateBlock(sorted[i])],
              pivotTableRows |-> [i \in 1..Len(names) |-> sorted[i].tester],
              percents |-> [i \in 1..Len(statuses) |->
                              percent(counts[i], reduceSum(counts, Len(counts)))],
              total |-> reduceSum(counts, Len(counts)),
              totalLinePercent |-> TotalLinePercent]

\* ------------------------------------------------------------------------
\* The spreadsheets the data source may hold
\* ------------------------------------------------------------------------

TitleNR100 == <<"N", "R", "-", "1", "0", "0">>
TitleItr7 == <<"I", "T", "R", "-", "7", " ", "C", "h", "e", "c", "k", "o", "u", "t">>
TitleIndex == <<"I", "n", "d", "e", "x">>

TitleTwoItr ==
    <<"S", "i", "t", "r", " ", "i", "t", "r", "-", "1", "2", " ", "I", "T", "R", "3">>

HeaderFull ==
    <<<<"T", "e", "s", "t", "e", "r">>,
      <<"O", "v", "e", "r", "a", "l", "l", " ", "S", "t", "a", "t", "u", "s">>,
      <<"I", "t", "e", "r", "a", "t", "i", "o", "n">>>>
HeaderNoStatus ==
    <<<<"C", "o", "m", "m", "e", "n", "t">>,
      <<"Q", "A", " ", "T", "e", "s", "t", "e", "r">>>>
RowAlice ==
    <<<<"A", "l", "i", "c", "e">>, <<" ", "P", "a", "s", "s", "e", "d", " ">>,
      <<"i", "t", "r", " ", "4">>>>
RowAliceBlank == <<<<" ", "A", "l", "i", "c", "e">>, <<" ">>>>
RowBob ==
    <<<<"b", "o", "b">>, <<"R", "e", "t", "e", "s", "t">>,
      <<"x", " ", "i", "t", "r", "2">>>>
RowCy ==
    <<<<"C", "y">>, <<"c", "o", "n", "s", "t", "r", "u", "c", "t", "o", "r">>,
      <<"1">>>>
RowDee == <<<<"D", "e", "e">>>>
RowNoTester ==
    <<EmptyString, <<"F", "a", "i", "l", "e", "d">>,
      <<" ", "I", "T", "R", "-", "2", " ">>>>
RowEve ==
    <<<<"E", "v", "e", "\t">>, EmptyString, <<"I", "t", "r", "9", "i", "t", "r", "1">>>>
RowEmpty == <<>>

\* The sheet titles of a spreadsheet, in the order of the metadata.
TitleSeqs == {<<TitleNR100, TitleItr7>>, <<TitleIndex, TitleNR100>>}

\* The rows the sheets of a spreadsheet are made of.
RowPool == {HeaderFull, RowAlice, RowAliceBlank, RowBob, RowCy}

\* Largest number of rows of the single sheet of FetchSpec.
MaxRows == 3

\* The titles and the rows of the spreadsheets of one sheet.
FetchTitleSeqs == {<<TitleNR100>>, <<TitleItr7>>, <<TitleTwoItr>>}
FetchRowPool ==
    {HeaderFull, HeaderNoStatus, RowAlice, RowAliceBlank, RowBob, RowCy,
     RowDee, RowNoTester, RowEve, RowEmpty}

\* The rows of the index sheets.
IndexHeader ==
    <<<<"T", "e", "s", "t", " ", "S", "t", "o", "r", "y">>,
      <<"D", "e", "s", "c", "r", "i", "p", "t", "i", "o", "n">>,
      <<"S", "t", "a", "t", "u", "s">>>>
IndexRowS1 ==
    <<<<"S", "-", "1">>, <<"d", "e", "s", "c">>, <<"P", "a", "s", "s", "e", "d">>>>
IndexRowS2 == <<<<"S", "-", "2">>, EmptyString, <<" ", "P", "a", "s", "s", "e", "d">>>>
IndexRowNoStatus == <<<<"S", "-", "3">>, <<"d">>>>
IndexRowBlank == <<EmptyString, EmptyString, EmptyString>>
IndexRowCtor ==
    <<<<"S", "-", "4">>, <<"d">>, <<"c", "o", "n", "s", "t", "r", "u", "c", "t", "o", "r">>>>

\* Header rows in which one cell carries two labels, and with all five
\* columns in another order.
HeaderShared ==
    <<<<"D", "e", "f", "e", "c", "t", " ", "/", " ", "C", "o", "m", "m", "e", "n", "t">>,
      <<"T", "e", "s", "t", "e", "r">>>>
HeaderAll ==
    <<<<"C", "o", "m", "m", "e", "n", "t", "s">>, <<"D", "e", "f", "e", "c", "t", " ", "I", "D">>,
      <<"Q", "A", " ", "T", "e", "s", "t", "e", "r">>, <<"I", "t", "e", "r", "a", "t", "i", "o", "n">>,
      <<"O", "v", "e", "r", "a", "l", "l", " ", "S", "t", "a", "t", "u", "s">>>>
RowFay ==
    <<<<"c", "1">>, <<"D", "-", "9">>, <<"F", "a", "y">>, <<"2">>,
      <<"F", "a", "i", "l", "e", "d">>>>

\* Spreadsheets of one data sheet, for the columns of the header row.
ColumnsTitleSeqs == {<<TitleNR100>>, <<TitleItr7>>}
ColumnsRowPool ==
    {HeaderAll, HeaderShared, HeaderNoStatus, RowAlice, RowDee, RowEmpty, RowFay}

\* Spreadsheets of two sheets on which one tester has rows with the
\* iterations "4", "1" and none.
RowAliceOne == <<<<"A", "l", "i", "c", "e">>, <<"F", "a", "i", "l", "e", "d">>, <<"1">>>>
TicketTitleSeqs == {<<TitleNR100, TitleItr7>>}
TicketRowPool == {HeaderFull, RowAlice, RowAliceBlank, RowAliceOne, RowBob}

\* Spreadsheets of an index sheet alone.
IndexTitleSeqs == {<<TitleIndex>>}
IndexRowPool ==
    {IndexHeader, IndexRowS1, IndexRowS2, IndexRowNoStatus, IndexRowBlank,
     IndexRowCtor, RowEmpty, HeaderFull}

\* Largest number of rows of a spreadsheet the reporter is run on again.
MaxRerunRows == 2

\* Spreadsheets the reporter is run on again and again.
RerunTitleSeqs == {<<TitleIndex>>, <<TitleNR100>>}
RerunRowPool == {HeaderFull, RowAlice}

\* Sheet titles and rows for answers of the data source that do not have
\* one grid per title.
MismatchTitleSeqs == {<<TitleNR100>>, <<TitleNR100, TitleItr7>>}
MismatchRowPool == {HeaderFull, RowAlice, RowBob}

\* The sum of lens[1..n].
RECURSIVE SumTo(_, _)
SumTo(lens, n) == IF n = 0 THEN 0 ELSE lens[n] + SumTo(lens, n - 1)

\* The grids of the sheets: flat cut into pieces of the lengths lens.
Split(flat, lens) ==
    [k \in 1..Len(lens) |->
        SubSeq(flat, SumTo(lens, k - 1) + 1, SumTo(lens, k))]

\* The answers of batchGet with n grids of at most maxRows rows of pool in
\* all.
Grids(n, pool, maxRows) ==
    UNION {{Split(flat, lens) : flat \in [1..SumTo(lens, n) -> pool]} :
              lens \in {l \in [1..n -> 0..maxRows] : SumTo(l, n) <= maxRows}}

\* ------------------------------------------------------------------------
\* The state machine
\* ------------------------------------------------------------------------

\* process.env.NAME and process.argv[2] when they are not set.
NotSet == "undefined"

\* '<YOUR_SPREADSHEET_ID>'
Placeholder == "<YOUR_SPREADSHEET_ID>"

\* The one spreadsheet id the data source has a spreadsheet for.
SpreadsheetIdOfSource == "sheet-1"

\* A string or undefined taken as a condition.
truthy(v) == v # NotSet /\ v # ""

\* v || d
orElse(v, d) == IF truthy(v) THEN v ELSE d

\* What a run finds: the entry point that was started, the environment
\* variables and the argument, whether oauth-credentials.json exists, the
\* state of google-token.json (none, a token that is not about to expire,
\* one that is) and the request that the services reject, if any.
Environments ==
    [entry : {"runReport", "main"},
     GOOGLE_SHEETS_SPREADSHEET_ID : {NotSet, "", SpreadsheetIdOfSource},
     GOOGLE_AUTH_CODE : {NotSet, "code"},
     argv2 : {NotSet, "code"},
     credentials : {"missing", "installed"},
     token : {"missing", "fresh", "expiring"},
     rejects : {"none", "refreshAccessToken", "getToken", "get", "batchGet"}]

\* A run of the CLI block with the id of the spreadsheet, credentials and a
\* token, whose requests are all answered.
EnvReady ==
    [entry |-> "main", GOOGLE_SHEETS_SPREADSHEET_ID |-> SpreadsheetIdOfSource,
     GOOGLE_AUTH_CODE |-> NotSet, argv2 |-> NotSet,
     credentials |-> "installed", token |-> "fresh", rejects |-> "none"]

\* const spreadsheetId = process.env.GOOGLE_SHEETS_SPREADSHEET_ID
\*     || '<YOUR_SPREADSHEET_ID>' in runReport,
\* const spreadsheetId = process.env.GOOGLE_SHEETS_SPREADSHEET_ID in the CLI
\* block; the constructor keeps it as this.spreadsheetId.
spreadsheetId ==
    IF env.entry = "runReport"
    THEN orElse(env.GOOGLE_SHEETS_SPREADSHEET_ID, Placeholder)
    ELSE env.GOOGLE_SHEETS_SPREADSHEET_ID

\* const authCode = process.env.GOOGLE_AUTH_CODE || undefined in runReport,
\* process.env.GOOGLE_AUTH_CODE || process.argv[2] in the CLI block.
authCode ==
    IF env.entry = "runReport"
    THEN orElse(env.GOOGLE_AUTH_CODE, NotSet)
    ELSE orElse(env.GOOGLE_AUTH_CODE, env.argv2)

\* The position after a step in the try block that ignores what the step
\* threw.
afterStepIgnoringThrow(threw, next) == next

\* The position after a step in the try block: the catch clause calls
\* process.exit(1).
afterStep(threw, next) == IF threw THEN "exit1" ELSE next

\* What authenticate(authCode) does: it throws without credentials file,
\* and without token file when there is no auth code or getToken rejects
\* the code; a token that is about to expire is refreshed and written back
\* unless the refresh fails, which is caught; a token got for the auth
\* code is written.
authenticateOutcome ==
    IF env.credentials = "missing"
    THEN [threw |-> TRUE, tokenFile |-> tokenFile]
    ELSE IF tokenFile # "missing"
    THEN [threw |-> FALSE,
          tokenFile |-> IF tokenFile = "expiring" /\ env.rejects # "refreshAccessToken"
                        THEN "refreshed" ELSE tokenFile]
    ELSE IF truthy(authCode)
    THEN IF env.rejects = "getToken"
         THEN [threw |-> TRUE, tokenFile |-> tokenFile]
         ELSE [threw |-> FALSE, tokenFile |-> "obtained"]
    ELSE [threw |-> TRUE, tokenFile |-> tokenFile]

\* The reporter of a run whose authenticate has returned.
AfterAuthenticate ==
    /\ env = EnvReady
    /\ sheets = TRUE
    /\ tokenFile = EnvReady.token

\* this.sheets.spreadsheets.get or values.batchGet throws: this.sheets is
\* null, the data source has no spreadsheet of this.spreadsheetId, or the
\* service rejects the request.
requestRejected ==
    \/ ~sheets
    \/ spreadsheetId # SpreadsheetIdOfSource
    \/ env.rejects \in {"get", "batchGet"}

\* The reporter after its constructor, for a spreadsheet of the data source
\* with titles of titleSeqs and at most maxRows rows of pool in all.
InitWith(titleSeqs, pool, maxRows) ==
    /\ allSheetTitles \in titleSeqs
    /\ \E lens \in [1..Len(allSheetTitles) -> 0..maxRows] :
         /\ SumTo(lens, Len(lens)) <= maxRows
         /\ \E flat \in [1..SumTo(lens, Len(lens)) -> pool] :
              valueRanges = Split(flat, lens)
    /\ allData = <<>>
    /\ sheetSummaries = <<>>
    /\ indexSheetRows = Null
    /\ report = NoReport
    /\ pc = "start"
    /\ AfterAuthenticate

Init == InitWith(TitleSeqs, RowPool, MaxTotalRows)

InitFetch == InitWith(FetchTitleSeqs, FetchRowPool, MaxRows)

\* await reporter.fetchAllSheetsData()
fetchAllSheetsData ==
    /\ pc = "start"
    /\ IF requestRejected
       THEN /\ pc' = "exit1"
            /\ UNCHANGED <<allData, sheetSummaries, indexSheetRows>>
       ELSE \E r \in {forEachValueRange(fetchStart, allSheetTitles, valueRanges, 0)} :
              /\ sheetSummaries' = r.sheetSummaries
              /\ indexSheetRows' = r.indexSheetRows
              /\ allData' = IF r.threw THEN allData ELSE r.allData
              /\ pc' = IF r.threw THEN "exit1" ELSE "fetched"
    /\ UNCHANGED <<allSheetTitles, valueRanges, report, env, sheets, tokenFile>>

\* reporter.saveReports(): generateHTMLReport, then the file is written.
saveReports ==
    /\ pc = "fetched"
    /\ \E html \in {generateHTMLReport(allData, indexSheetRows)} :
         /\ report' = html
         /\ pc' = IF html.status = "threw" THEN "exit1" ELSE "saved"
    /\ UNCHANGED <<allSheetTitles, valueRanges, allData, sheetSummaries,
                   indexSheetRows, env, sheets, tokenFile>>

Next == fetchAllSheetsData \/ saveReports

\* Spreadsheets of one data sheet whose header rows name the columns in
\* several ways.
InitColumns == InitWith(ColumnsTitleSeqs, ColumnsRowPool, MaxRows)

\* Spreadsheets of an index sheet alone.
InitIndex == InitWith(IndexTitleSeqs, IndexRowPool, MaxRows)

\* The reporter after its constructor, when batchGet answers with any number
\* of grids from none to one more than the titles.
InitMismatch ==
    /\ allSheetTitles \in MismatchTitleSeqs
    /\ \E n \in 0..(Len(allSheetTitles) + 1) :
         valueRanges \in Grids(n, MismatchRowPool, MaxRows)
    /\ allData = <<>>
    /\ sheetSummaries = <<>>
    /\ indexSheetRows = Null
    /\ report = NoReport
    /\ pc = "start"
    /\ AfterAuthenticate

\* The answers of batchGet to a reporter that is used for several runs: a
\* grid per title, or one grid more.
RerunGrids(titles) ==
    UNION {Grids(n, RerunRowPool, MaxRerunRows) :
              n \in Len(titles)..(Len(titles) + 1)}

\* The reporter after its constructor, before the first of several runs.
\* Spreadsheets of two sheets with rows of one tester.
InitTicket == InitWith(TicketTitleSeqs, TicketRowPool, MaxTotalRows)

InitRerun ==
    /\ allSheetTitles \in RerunTitleSeqs
    /\ valueRanges \in RerunGrids(allSheetTitles)
    /\ allData = <<>>
    /\ sheetSummaries = <<>>
    /\ indexSheetRows = Null
    /\ report = NoReport
    /\ pc = "start"
    /\ AfterAuthenticate

\* The spreadsheet is edited after a run that ended with the report saved or
\* with an error its caller caught, and the same reporter is about to fetch
\* it again: the metadata and batchGet requests of the next call answer
\* with the new titles and grids.
spreadsheetEdited ==
    /\ pc \in {"saved", "exit1"}
    /\ allSheetTitles' \in RerunTitleSeqs
    /\ valueRanges' \in RerunGrids(allSheetTitles')
    /\ pc' = "start"
    /\ UNCHANGED <<allData, sheetSummaries, indexSheetRows, report, env,
                   sheets, tokenFile>>

RerunNext == fetchAllSheetsData \/ saveReports \/ spreadsheetEdited

\* Largest number of rows of the spreadsheets of the entry points.
MaxEntryRows == 2

\* The spreadsheet of the entry points: one sheet, and a tester named as a
\* property of Object.prototype.
RowToString ==
    <<<<"t", "o", "S", "t", "r", "i", "n", "g">>, <<"P", "a", "s", "s", "e", "d">>>>
EntryTitleSeqs == {<<TitleNR100>>}
EntryRowPool == {HeaderFull, RowToString}

\* The process when an entry point starts, before its try block: nothing
\* is constructed or authenticated yet.
InitEntry ==
    /\ env \in Environments
    /\ allSheetTitles \in EntryTitleSeqs
    /\ \E n \in Len(allSheetTitles)..(Len(allSheetTitles) + 1) :
         valueRanges \in Grids(n, EntryRowPool, MaxEntryRows)
    /\ allData = <<>>
    /\ sheetSummaries = <<>>
    /\ indexSheetRows = Null
    /\ report = NoReport
    /\ sheets = FALSE
    /\ tokenFile = env.token
    /\ pc = "entry"

\* runReport up to new GoogleSheetsPivotReporterOAuth(spreadsheetId):
\* if (!spreadsheetId) process.exit(1)
runReport ==
    /\ pc = "entry"
    /\ env.entry = "runReport"
    /\ pc' = IF ~truthy(spreadsheetId) THEN "exit1" ELSE "authenticate"
    /\ UNCHANGED <<allSheetTitles, valueRanges, allData, sheetSummaries,
                   indexSheetRows, report, env, sheets, tokenFile>>

\* The CLI block up to new GoogleSheetsPivotReporterOAuth(spreadsheetId):
\* if (!spreadsheetId) process.exit(1)
main ==
    /\ pc = "entry"
    /\ env.entry = "main"
    /\ pc' = IF ~truthy(spreadsheetId) THEN "exit1" ELSE "authenticate"
    /\ UNCHANGED <<allSheetTitles, valueRanges, allData, sheetSummaries,
                   indexSheetRows, report, env, sheets, tokenFile>>

\* await reporter.authenticate(authCode); this.sheets is assigned in its
\* last statement.
authenticate ==
    /\ pc = "authenticate"
    /\ \E out \in {authenticateOutcome} :
         /\ sheets' = ~out.threw
         /\ tokenFile' = out.tokenFile
         /\ pc' = afterStep(out.threw, "start")
    /\ UNCHANGED <<allSheetTitles, valueRanges, allData, sheetSummaries,
                   indexSheetRows, report, env>>

EntryNext ==
    runReport \/ main \/ authenticate \/ fetchAllSheetsData \/ saveReports

\* Spreadsheets of several sheets.
Spec == Init /\ [][Next]_vars

\* Spreadsheets of one sheet, with more kinds of rows.
FetchSpec == InitFetch /\ [][Next]_vars

\* One data sheet under several header rows.
ColumnsSpec == InitColumns /\ [][Next]_vars

\* An index sheet alone.
IndexSpec == InitIndex /\ [][Next]_vars

\* One tester with several iterations on two tickets.
TicketSpec == InitTicket /\ [][Next]_vars

\* The two entry points, from their first statement.
EntrySpec == InitEntry /\ [][EntryNext]_vars

\* Answers of the data source with more or fewer grids than titles.
MismatchSpec == InitMismatch /\ [][Next]_vars

\* One reporter fetching and reporting again and again.
RerunSpec == InitRerun /\ [][RerunNext]_vars

\* ------------------------------------------------------------------------
\* The sheets as the specification describes them
\* ------------------------------------------------------------------------

\* A string with no character other than white space (the empty string too).
IsBlank(s) == \A i \in 1..Len(s) : s[i] \in WhiteSpace

\* The cell at 1-based column c of row, the empty string when row has none.
CellAt(row, c) == IF c >= 1 /\ c <= Len(row) THEN row[c] ELSE EmptyString

\* The least element of a set of positions, 0 when the set is empty.
FirstOf(S) == IF S = {} THEN 0 ELSE Min(S)

\* The 1-based columns of row whose cell contains label, case-insensitively.
ColumnsWith(row, label) ==
    {c \in 1..Len(row) : includes(toLowerCase(row[c]), label)}

\* The first of these columns, 0 when there is none.
FirstColumn(row, label) == FirstOf(ColumnsWith(row, label))

\* The 1-based rows of a grid that have a cell containing "tester".
HeaderCandidates(rows) ==
    {i \in 1..Len(rows) : ColumnsWith(rows[i], LblTester) # {}}

\* The header row of a grid: the first candidate, 0 when there is none.
HeaderPos(rows) == FirstOf(HeaderCandidates(rows))

\* The sheets of the spreadsheet that are not the index sheet.
DataSheets ==
    {k \in 1..Len(allSheetTitles) : toLowerCase(allSheetTitles[k]) # LblIndex}

\* The rows of sheet k that are to give a Record: those below the header
\* row whose tester cell is not blank, in row order, each with its sheet,
\* its position and the header row of the sheet.
SheetSources(k) ==
    LET rows == valueRanges[k]
        h == HeaderPos(rows)
        col == IF h = 0 THEN 0 ELSE FirstColumn(rows[h], LblTester)
        Keep(p) == p.row > h /\ ~IsBlank(CellAt(rows[p.row], col))
    IN  IF k \notin DataSheets \/ h = 0 THEN <<>>
        ELSE SelectSeq([i \in 1..Len(rows) |->
                          [sheet |-> k, row |-> i, header |-> rows[h]]], Keep)

\* The rows of sheets 1..k that are to give a Record, in sheet and row order.
RECURSIVE SourcesTo(_)
SourcesTo(k) == IF k = 0 THEN <<>> ELSE SourcesTo(k - 1) \o SheetSources(k)

Sources == SourcesTo(Len(allSheetTitles))

\* The cell of a source row in the first column whose header contains label.
SourceCell(src, label) ==
    CellAt(valueRanges[src.sheet][src.row], FirstColumn(src.header, label))

\* Whether sheet k has, below its header row, a row whose tester cell is
\* not empty but blank.
HasWhiteSpaceTester(k) ==
    LET rows == valueRanges[k]
        h == HeaderPos(rows)
    IN  /\ k \in DataSheets
        /\ h # 0
        /\ \E i \in (h + 1)..Len(rows) :
             LET cell == CellAt(rows[i], FirstColumn(rows[h], LblTester))
             IN  cell # EmptyString /\ IsBlank(cell)

\* ------------------------------------------------------------------------
\* Claims
\* ------------------------------------------------------------------------

\* C1: a row below the header whose tester cell is missing, empty or only
\* white space gives no Record: allData has at most one Record per row with
\* a tester, and every Record's tester has a non-empty trimmed value.
C1_BlankTesterNeverEmitted ==
    pc # "start" =>
        /\ Len(allData) <= Len(Sources)
        /\ \A j \in 1..Len(allData) : ~IsBlank(allData[j].tester)

\* C1 witness: a fetch of a sheet that gives a Record and has, below its
\* header, a row whose tester cell is white space.
C1_Witness ==
    /\ pc = "fetched"
    /\ Len(allData) > 0
    /\ \E k \in 1..Len(allSheetTitles) : HasWhiteSpaceTester(k)

\* C2: every Record's overallStatus is non-empty: the trimmed status cell of
\* its row when that is non-empty, "Not Started" when the cell is missing,
\* empty or white space, or the sheet has no "overall status" column.
C2_StatusNeverEmpty ==
    pc # "start" =>
        \A src \in {Sources} :
            /\ Len(allData) = Len(src)
            /\ \A j \in 1..Len(allData) :
                 LET cell == SourceCell(src[j], LblOverallStatus)
                 IN  /\ allData[j].overallStatus # EmptyString
                     /\ IsBlank(cell) => allData[j].overallStatus = NotStarted
                     /\ ~IsBlank(cell) => allData[j].overallStatus = trim(cell)

\* C2 witness: a fetch with a Record of a white-space status cell, and a
\* Record whose status cell had white space around a status.
C2_Witness ==
    /\ pc = "fetched"
    /\ \E src \in {Sources} :
           /\ Len(allData) = Len(src)
           /\ \E j \in 1..Len(allData) :
                LET cell == SourceCell(src[j], LblOverallStatus)
                IN  cell # EmptyString /\ IsBlank(cell)
           /\ \E j \in 1..Len(allData) :
                LET cell == SourceCell(src[j], LblOverallStatus)
                IN  ~IsBlank(cell) /\ trim(cell) # cell

\* The statuses of statusOrder.
Canonical == {statusOrder[i] : i \in 1..Len(statusOrder)}

\* The position of a canonical status in the canonical order.
CanonicalRank(s) == CHOOSE i \in 1..Len(statusOrder) : statusOrder[i] = s

\* The position of the first Record of allData with status s.
FirstSeen(s) ==
    CHOOSE j \in 1..Len(allData) :
        /\ allData[j].overallStatus = s
        /\ \A i \in 1..(j - 1) : allData[i].overallStatus # s

\* C3: statusList holds exactly the distinct statuses of the Records, each
\* once: the canonical ones first in the canonical order, then the others in
\* the order in which they were first seen.
C3_StatusListOrder ==
    report.status = "ok" =>
        LET sl == report.statusList
        IN  /\ {sl[i] : i \in 1..Len(sl)} =
                   {allData[j].overallStatus : j \in 1..Len(allData)}
            /\ \A i, j \in 1..Len(sl) : i < j =>
                 /\ sl[i] # sl[j]
                 /\ sl[j] \in Canonical =>
                      sl[i] \in Canonical /\ CanonicalRank(sl[i]) < CanonicalRank(sl[j])
                 /\ sl[i] \notin Canonical =>
                      sl[j] \notin Canonical /\ FirstSeen(sl[i]) < FirstSeen(sl[j])

\* C3 witness: a report whose first Record has a custom status, with two
\* custom statuses and a canonical one among the Records.
C3_Witness ==
    /\ report.status = "ok"
    /\ Len(allData) > 0
    /\ allData[1].overallStatus \notin Canonical
    /\ \E i, j \in 1..Len(report.statusList) :
         /\ i < j
         /\ report.statusList[i] \notin Canonical
         /\ report.statusList[j] \notin Canonical
    /\ \E i \in 1..Len(report.statusList) : report.statusList[i] \in Canonical

\* The Records of allData whose trimmed tester is name, in order.
RecordsOf(name) ==
    LET Mine(r) == trim(r.tester) = name
    IN  SelectSeq(allData, Mine)

\* The number of Records in rows whose status is s.
RECURSIVE CountStatus(_, _)
CountStatus(rows, s) ==
    IF rows = <<>> THEN 0
    ELSE (IF Head(rows).overallStatus = s THEN 1 ELSE 0) + CountStatus(Tail(rows), s)

\* C4: the Records are grouped by trimmed tester: the groups are those of
\* the distinct trimmed testers, each holds exactly the Records of its
\* tester, total is their number and statusCounts[s] the number of them
\* with status s.
C4_GroupedByTrimmedTester ==
    report.status = "ok" =>
        /\ {report.grouped[g].tester : g \in 1..Len(report.grouped)} =
               {trim(allData[j].tester) : j \in 1..Len(allData)}
        /\ \A g, h \in 1..Len(report.grouped) :
               report.grouped[g].tester = report.grouped[h].tester => g = h
        /\ \A g \in 1..Len(report.grouped) :
               report.grouped[g].rows = RecordsOf(report.grouped[g].tester)
        /\ \A d \in 1..Len(report.data) :
               LET mine == RecordsOf(report.data[d].testerName)
               IN  /\ report.data[d].total = Len(mine)
                   /\ \A i \in 1..Len(report.statusList) :
                        report.data[d].statusCounts[i] =
                            Num(CountStatus(mine, report.statusList[i]))

\* C5: a tester's uniqueTicketCount is the number of distinct jiraTicket
\* values among the tester's Records.
C5_UniqueTicketCount ==
    report.status = "ok" =>
        \A d \in 1..Len(report.data) :
            report.data[d].uniqueTicketCount =
                Cardinality({allData[j].jiraTicket : j \in
                    {j \in 1..Len(allData) :
                        trim(allData[j].tester) = report.data[d].testerName}})

\* C5 witness: a report with a tester who has three Records, all of one
\* ticket.
C5_Witness ==
    /\ report.status = "ok"
    /\ \E d \in 1..Len(report.data) :
         /\ report.data[d].uniqueTicketCount = 1
         /\ report.data[d].total = 3

\* C6: allData follows the order of the sheets and, in a sheet, of the rows;
\* a Record's jiraTicket is the name of its sheet; the index sheet gives no
\* Record.
C6_RecordsInSheetAndRowOrder ==
    pc # "start" =>
        \A src \in {Sources} :
            /\ Len(allData) = Len(src)
            /\ \A j \in 1..Len(allData) :
                 /\ allData[j].jiraTicket = allSheetTitles[src[j].sheet]
                 /\ allData[j].tester = SourceCell(src[j], LblTester)
                 /\ toLowerCase(allData[j].jiraTicket) # LblIndex

\* C6 witness: a fetch that gave Records of two sheets.
C6_Witness ==
    /\ pc = "fetched"
    /\ \E i, j \in 1..Len(allData) :
         i < j /\ allData[i].jiraTicket # allData[j].jiraTicket

\* C10: the global count of each status of statusList is the number of
\* Records with that status.
C10_GlobalStatusCounts ==
    report.status = "ok" =>
        /\ Len(report.statusCounts) = Len(report.statusList)
        /\ \A i \in 1..Len(report.statusList) :
             report.statusCounts[i] = CountStatus(allData, report.statusList[i])

\* C10 witness: a report in which one tester has two Records of one status.
C10_Witness ==
    /\ report.status = "ok"
    /\ \E i \in 1..Len(report.statusList) :
         /\ report.statusCounts[i] >= 2
         /\ report.statusCounts[i] < Len(allData)
         /\ Cardinality({trim(allData[j].tester) : j \in {j \in 1..Len(allData) :
                allData[j].overallStatus = report.statusList[i]}}) = 1

\* The position in sheetSummaries of the summary of data sheet k.
SummaryPos(k) == Cardinality({j \in DataSheets : j <= k})

\* The Records of allData whose jiraTicket is the title of sheet k.
RecordsOfSheet(k) ==
    LET Mine(r) == r.jiraTicket = allSheetTitles[k]
    IN  SelectSeq(allData, Mine)

\* Whether fetchAllSheetsData ended with an error.
FetchFailed == pc = "exit1" /\ report.status = "none"

\* C7: the header row is the first row with a cell containing "tester": the
\* Records of a sheet are those of the rows below that row, none of a row
\* above it; a sheet without such a row (or without rows) gives no Record
\* and the summary rowCount 0, headerFound false, and no error.
C7_HeaderIsFirstTesterRow ==
    pc # "start" =>
        /\ ~FetchFailed
        /\ Len(sheetSummaries) = Cardinality(DataSheets)
        /\ \A k \in DataSheets :
             \A found \in {HeaderPos(valueRanges[k]) # 0},
                src \in {SheetSources(k)}, recs \in {RecordsOfSheet(k)} :
                 /\ sheetSummaries[SummaryPos(k)].name = allSheetTitles[k]
                 /\ sheetSummaries[SummaryPos(k)].headerFound = found
                 /\ ~found => sheetSummaries[SummaryPos(k)].rowCount = 0
                 /\ Len(recs) = Len(src)
                 /\ \A j \in 1..Len(recs) :
                      recs[j].tester = SourceCell(src[j], LblTester)

\* C7 witness: a fetch of a sheet whose header row is not its first row and
\* has a row with a tester above the header and a Record below it.
C7_Witness ==
    /\ pc = "fetched"
    /\ Len(allData) > 0
    /\ \E k \in DataSheets :
         /\ HeaderPos(valueRanges[k]) > 1
         /\ valueRanges[k][1] # <<>>
         /\ ~IsBlank(valueRanges[k][1][1])

\* Whether t has the form "itr", an optional "-" or space, then digits.
IsItrToken(t) ==
    /\ Len(t) >= 4
    /\ toLowerCase(SubSeq(t, 1, 3)) = LblItr
    /\ LET d == IF t[4] \in {"-", " "} THEN 5 ELSE 4
       IN  d <= Len(t) /\ \A i \in d..Len(t) : t[i] \in Digits

\* The first substring of name of that form (the longest at the leftmost
\* start), the empty string when there is none.
FirstItrToken(name) ==
    LET starts == {a \in 1..Len(name) :
                      a + 3 <= Len(name) /\ LowerChar(name[a]) = "i"}
        tokens == {p \in starts \X (1..Len(name)) :
                      p[1] <= p[2] /\ IsItrToken(SubSeq(name, p[1], p[2]))}
    IN  IF tokens = {} THEN EmptyString
        ELSE LET first == CHOOSE p \in tokens : \A q \in tokens :
                              p[1] < q[1] \/ (p[1] = q[1] /\ p[2] >= q[2])
             IN  SubSeq(name, first[1], first[2])

\* The raw iteration of a source row: its iteration cell when the header has
\* an iteration column, else the token of the sheet name.
SourceRawIteration(src) ==
    IF FirstColumn(src.header, LblIteration) # 0
    THEN SourceCell(src, LblIteration)
    ELSE FirstItrToken(allSheetTitles[src.sheet])

\* C8: the raw iteration of a Record is the iteration cell of its row when
\* the header has an iteration column (the empty string for a missing or
\* empty cell), else the first "itr" token of the sheet name, or the empty
\* string; sheet "ITR-7 Checkout" without the column gives the label "7".
C8_RawIterationSource ==
    pc # "start" =>
        \A src \in {Sources} :
            /\ Len(allData) = Len(src)
            /\ \A j \in 1..Len(allData) :
                 /\ allData[j].iteration = iterationLabel(SourceRawIteration(src[j]))
                 /\ (/\ FirstColumn(src[j].header, LblIteration) # 0
                     /\ SourceCell(src[j], LblIteration) = EmptyString)
                        => allData[j].iteration = EmptyString
                 /\ (/\ FirstColumn(src[j].header, LblIteration) = 0
                     /\ allData[j].jiraTicket = TitleItr7)
                        => allData[j].iteration = <<"7">>

\* C8 witness: a fetch of sheet "ITR-7 Checkout" with a Record of a row
\* that has no iteration cell under a header with an iteration column.
C8_Witness ==
    /\ pc = "fetched"
    /\ allSheetTitles = <<TitleItr7>>
    /\ \E src \in {Sources} :
           \E j \in 1..Len(src) :
              /\ FirstColumn(src[j].header, LblIteration) # 0
              /\ SourceCell(src[j], LblIteration) = EmptyString

\* Whether s starts with "itr", in any case.
StartsWithItr(s) == Len(s) >= 3 /\ toLowerCase(SubSeq(s, 1, 3)) = LblItr

\* s without surrounding white space and without a leading "itr" and the
\* "-" or space after it; s without surrounding white space when s does not
\* start with "itr".
StripLeadingItr(s) ==
    LET t == trim(s)
    IN  IF ~StartsWithItr(t) THEN t
        ELSE IF Len(t) >= 4 /\ t[4] \in {"-", " "} THEN trim(SubSeq(t, 5, Len(t)))
        ELSE trim(SubSeq(t, 4, Len(t)))

\* C9: the iteration label is the raw iteration without a leading "itr"
\* prefix and surrounding white space; a raw value that does not start with
\* "itr" is only trimmed.
C9_OnlyLeadingItrStripped ==
    pc # "start" =>
        \A src \in {Sources} :
            /\ Len(allData) = Len(src)
            /\ \A j \in 1..Len(allData) :
                 allData[j].iteration = StripLeadingItr(SourceRawIteration(src[j]))

\* The sheets of the spreadsheet named "index", in any case, that have a grid
\* of more than one row.
ShownIndexSheets ==
    {k \in 1..Len(allSheetTitles) :
        /\ toLowerCase(allSheetTitles[k]) = LblIndex
        /\ k <= Len(valueRanges)
        /\ Len(valueRanges[k]) > 1}

\* The rows the index view is to be made of: those of the index sheet of
\* the spreadsheet, none when it has no such sheet.
ExpectedIndexRows ==
    IF ShownIndexSheets = {} THEN Null
    ELSE NotNull(valueRanges[Max(ShownIndexSheets)])

\* The trimmed testers of the rows that are to give a Record.
SourceTesters(src) ==
    {trim(SourceCell(src[j], LblTester)) : j \in 1..Len(src)}

\* Whether the reporter holds what a fetch of the spreadsheet with these
\* titles and grids, by a reporter fresh from its constructor, leaves.
HoldsFetchOf(titles, grids) ==
    \E r \in {forEachValueRange(fetchStart, titles, grids, 0)} :
        /\ ~r.threw
        /\ allData = r.allData
        /\ sheetSummaries = r.sheetSummaries
        /\ indexSheetRows = r.indexSheetRows

\* Whether there is a spreadsheet whose fetch leaves what the reporter holds.
HoldsOneFetch ==
    \E titles \in RerunTitleSeqs :
        \E grids \in RerunGrids(titles) : HoldsFetchOf(titles, grids)

\* C11: the reporter keeps no state across runs.  After a successful fetch,
\* whatever was fetched and reported before, allData has exactly the
\* Records of the rows of the spreadsheet just fetched, sheetSummaries one
\* summary per data sheet of it and indexSheetRows its index rows, and the
\* report made from them has the testers, the total and the index view of
\* that spreadsheet alone.  At any time after a successful fetch (allData
\* is assigned by nothing else) the three fields are those of one fetch.
C11_NoStateAcrossRuns ==
    /\ pc \in {"fetched", "saved"} =>
          \A src \in {Sources} :
            /\ Len(allData) = Len(src)
            /\ \A j \in 1..Len(allData) :
                 /\ allData[j].jiraTicket = allSheetTitles[src[j].sheet]
                 /\ allData[j].tester = SourceCell(src[j], LblTester)
            /\ Len(sheetSummaries) = Cardinality(DataSheets)
            /\ \A k \in DataSheets :
                 sheetSummaries[SummaryPos(k)].name = allSheetTitles[k]
            /\ indexSheetRows = ExpectedIndexRows
            /\ pc = "saved" =>
                 /\ report.status = "ok"
                 /\ report.total = Len(src)
                 /\ {report.sortedTesters[i] : i \in 1..Len(report.sortedTesters)}
                        = SourceTesters(src)
                 /\ Len(report.sortedTesters) = Cardinality(SourceTesters(src))
                 /\ report.indexStoriesTable.shown = ~ExpectedIndexRows.isNull
    /\ allData # <<>> => HoldsOneFetch

\* C12: when batchGet answers with more or with fewer grids than there are
\* sheet titles, fetchAllSheetsData ends with an error and no report is
\* made from the grids that line up with a title.
C12_MismatchIsAnError ==
    (pc # "start" /\ Len(valueRanges) # Len(allSheetTitles)) => FetchFailed

\* Whether the row of src has no cell for label: the header has no column
\* for it, or the row ends before that column.
Missing(src, label) ==
    \/ FirstColumn(src.header, label) = 0
    \/ FirstColumn(src.header, label) > Len(valueRanges[src.sheet][src.row])

\* C13 as stated: missing data raises no error, and the defect, the
\* comments and the iteration of a Record are the empty string when the
\* sheet has no column for them or the row ends before the column; the
\* rows after such a row give their Records.
C13_MissingDataIsEmpty ==
    pc # "start" =>
        /\ ~FetchFailed
        /\ \A src \in {Sources} :
             /\ Len(allData) = Len(src)
             /\ \A j \in 1..Len(allData) :
                  /\ Missing(src[j], LblDefect) => allData[j].defect = EmptyString
                  /\ Missing(src[j], LblComment) => allData[j].comments = EmptyString
                  /\ Missing(src[j], LblIteration) => allData[j].iteration = EmptyString

\* C13 amended: as C13, but a sheet without an iteration column takes the
\* iteration of its Records from its name, and the iteration is the empty
\* string only when the name has no "itr" token either.
C13_MissingDataIsEmptyOrFromName ==
    pc # "start" =>
        /\ ~FetchFailed
        /\ \A src \in {Sources} :
             /\ Len(allData) = Len(src)
             /\ \A j \in 1..Len(allData) :
                  /\ Missing(src[j], LblDefect) => allData[j].defect = EmptyString
                  /\ Missing(src[j], LblComment) => allData[j].comments = EmptyString
                  /\ (/\ Missing(src[j], LblIteration)
                      /\ FirstColumn(src[j].header, LblIteration) # 0)
                         => allData[j].iteration = EmptyString
                  /\ FirstColumn(src[j].header, LblIteration) = 0
                         => allData[j].iteration =
                                iterationLabel(FirstItrToken(allSheetTitles[src[j].sheet]))
                  /\ (/\ FirstColumn(src[j].header, LblIteration) = 0
                      /\ FirstItrToken(allSheetTitles[src[j].sheet]) = EmptyString)
                         => allData[j].iteration = EmptyString

\* C13 witness: a fetch with a Record of a row that comes after an empty
\* row and ends before the iteration column of its header, and a fetch of a
\* sheet without defect column.
C13_Witness ==
    /\ pc = "fetched"
    /\ \E src \in {Sources} :
         \E j \in 1..Len(src) :
            /\ Len(allData) = Len(src)
            /\ FirstColumn(src[j].header, LblIteration) # 0
            /\ Missing(src[j], LblIteration)
            /\ FirstColumn(src[j].header, LblDefect) # 0
            /\ \E i \in 1..(src[j].row - 1) :
                 valueRanges[src[j].sheet][i] = RowEmpty

\* C14: after a successful fetch indexSheetRows holds the rows of the sheet
\* named "index" when that sheet has more than one row, and is null when
\* the spreadsheet has no such sheet or the sheet has no row or one row,
\* whatever an earlier run had found; a report made then has an index view
\* only in the first case, and no entry and no tally otherwise; a fetch that
\* gets a grid per title ends without error.
C14_IndexViewOnlyWithRows ==
    /\ (pc # "start" /\ Len(valueRanges) = Len(allSheetTitles)) => pc # "exit1"
    /\ pc \in {"fetched", "saved"} =>
          /\ indexSheetRows.isNull = (ShownIndexSheets = {})
          /\ indexSheetRows = ExpectedIndexRows
    /\ pc = "saved" =>
          /\ report.status = "ok"
          /\ report.indexStoriesTable.shown = (ShownIndexSheets # {})
          /\ ShownIndexSheets = {} =>
                /\ report.indexStoriesTable.entries = <<>>
                /\ report.indexStoriesTable.statusCountsMap = <<>>

\* C14 witness: a fetch of a spreadsheet whose index sheet has one row, by
\* a reporter whose last report had an index view.
C14_Witness ==
    /\ pc = "fetched"
    /\ report.status = "ok"
    /\ report.indexStoriesTable.shown
    /\ allSheetTitles = <<TitleIndex>>
    /\ Len(valueRanges) = 1
    /\ Len(valueRanges[1]) = 1

\* The 1-based rows of a grid after its first row that have a non-empty
\* cell, in increasing order.
RECURSIVE ListedRowsFrom(_, _)
ListedRowsFrom(rows, i) ==
    IF i > Len(rows) THEN <<>>
    ELSE IF \E c \in 1..Len(rows[i]) : rows[i][c] # EmptyString
    THEN <<i>> \o ListedRowsFrom(rows, i + 1)
    ELSE ListedRowsFrom(rows, i + 1)

\* C15: the index entries are the rows of the index sheet after its first
\* row that have at least one non-empty cell, one entry per such row and
\* in the order of the rows; a row of empty cells gives no entry and a row
\* with an empty status gives one.  The sheet [Test Story, Description,
\* Status], ["S-1", "desc", "Passed"], ["", "", ""] gives the one entry of
\* story S-1.
C15_IndexEntriesAreNonEmptyRows ==
    (pc = "saved" /\ report.indexStoriesTable.shown) =>
        \A k \in ShownIndexSheets :
            \A listed \in {ListedRowsFrom(valueRanges[k], 2)} :
                /\ Len(report.indexStoriesTable.entries) = Len(listed)
                /\ Len(report.indexStoriesTable.bodyRows) = Len(listed)
                /\ \A e \in 1..Len(listed) :
                     report.indexStoriesTable.bodyRows[e] = valueRanges[k][listed[e]]
                /\ valueRanges[k] = <<IndexHeader, IndexRowS1, IndexRowBlank>> =>
                     /\ Len(report.indexStoriesTable.entries) = 1
                     /\ report.indexStoriesTable.entries[1].testStory = IndexRowS1[1]
                     /\ report.indexStoriesTable.entries[1].status = Passed

\* C15 witness: a report of an index sheet with a row of empty cells, which
\* is dropped, before a row without status, which is listed.
C15_Witness ==
    /\ pc = "saved"
    /\ report.indexStoriesTable.shown
    /\ Len(valueRanges[1]) = 3
    /\ valueRanges[1][2] = IndexRowBlank
    /\ Len(report.indexStoriesTable.entries) = 1
    /\ report.indexStoriesTable.entries[1].status = EmptyString
    /\ report.indexStoriesTable.bodyRows[1] = valueRanges[1][3]

\* The absolute value of an integer.
Abs(x) == IF x < 0 THEN 0 - x ELSE x

\* The sum of the numbers of a sequence.
RECURSIVE SumOf(_)
SumOf(seq) == IF seq = <<>> THEN 0 ELSE Head(seq) + SumOf(Tail(seq))

\* C16: when there are Records, the percentage of each status of statusList
\* is its count over the number of Records times 100, rounded to one
\* decimal place (in tenths of a percent: at most half a tenth from the
\* exact quotient), and the percentages sum to 100 with an error of at most
\* 0.05 per listed status.
C16_PercentagesSumTo100 ==
    (report.status = "ok" /\ Len(allData) > 0) =>
        /\ Len(report.percents) = Len(report.statusList)
        /\ \A i \in 1..Len(report.statusList) :
             2 * Abs(report.percents[i] * Len(allData)
                     - 1000 * CountStatus(allData, report.statusList[i]))
                 <= Len(allData)
        /\ 2 * Abs(SumOf(report.percents) - 1000) <= Len(report.statusList)

\* C16 witness: a report of three Records, two of one status and one of
\* another, with the percentages 66.7 and 33.3.
C16_Witness ==
    /\ report.status = "ok"
    /\ Len(allData) = 3
    /\ \E i, j \in 1..Len(report.percents) :
         report.percents[i] = 667 /\ report.percents[j] = 333

\* C17: when there is no Record, no line of the status distribution
\* summary shows a percentage other than 0, the Total line included.
C17_ZeroTotalAllPercentagesZero ==
    (report.status = "ok" /\ Len(allData) = 0) =>
        /\ \A i \in 1..Len(report.percents) : report.percents[i] = 0
        /\ report.totalLinePercent = 0

\* Whether a comes before b, or is b, in the alphabetical order of
\* lower-case strings.
RECURSIVE AlphaLeq(_, _)
AlphaLeq(a, b) ==
    \/ a = <<>>
    \/ /\ b # <<>>
       /\ \/ CollationRank(Head(a)) < CollationRank(Head(b))
          \/ /\ CollationRank(Head(a)) = CollationRank(Head(b))
             /\ AlphaLeq(Tail(a), Tail(b))

\* C18: the order of the testers lists every distinct trimmed tester of the
\* Records once, in case-insensitive alphabetical order: for a before b,
\* lowercase(a) <= lowercase(b); the rows of the pivot table, the detail
\* blocks and the options of the tester filter follow this order.
C18_TestersSortedCaseInsensitively ==
    report.status = "ok" =>
        \A st \in {report.sortedTesters} :
            /\ {st[i] : i \in 1..Len(st)} =
                   {trim(allData[j].tester) : j \in 1..Len(allData)}
            /\ \A i, j \in 1..Len(st) :
                 i < j => /\ st[i] # st[j]
                          /\ AlphaLeq(toLowerCase(st[i]), toLowerCase(st[j]))
            /\ report.pivotTableRows = st
            /\ report.testerOptions = st
            /\ Len(report.data) = Len(st)
            /\ Len(report.aggregateBlocks) = Len(st)
            /\ \A i \in 1..Len(st) :
                 /\ report.data[i].testerName = st[i]
                 /\ report.aggregateBlocks[i].testerName = st[i]

\* C18 witness: a report with the testers "bob" and "Cy", in this order,
\* from rows in the other order.
C18_Witness ==
    /\ report.status = "ok"
    /\ \E i, j \in 1..Len(report.sortedTesters) :
         /\ i < j
         /\ report.sortedTesters[i] = RowBob[1]
         /\ report.sortedTesters[j] = RowCy[1]
    /\ \E i, j \in 1..Len(allData) :
         /\ i < j
         /\ allData[i].tester = RowCy[1]
         /\ allData[j].tester = RowBob[1]

\* C19: fetchAllSheetsData records one summary per sheet other than the
\* index sheet, in the order of the sheets, and the rowCount of a summary is
\* the number of Records the sheet gave (0 for a sheet without rows or
\* without header).
C19_RowCountIsEmittedRecords ==
    pc \in {"fetched", "saved"} =>
        /\ Len(sheetSummaries) = Cardinality(DataSheets)
        /\ \A k \in DataSheets :
             /\ sheetSummaries[SummaryPos(k)].name = allSheetTitles[k]
             /\ sheetSummaries[SummaryPos(k)].rowCount = Len(RecordsOfSheet(k))

\* C20: each of the five columns is the first cell of the header row that
\* contains its label, whatever the other four are: every field of a Record
\* comes from the cell of its row in that column (a field whose label no
\* cell contains has its default), also when one header cell contains two
\* labels.
C20_ColumnsLocatedIndependently ==
    pc # "start" =>
        \A src \in {Sources} :
            /\ Len(allData) = Len(src)
            /\ \A j \in 1..Len(allData) :
                 /\ allData[j].tester = SourceCell(src[j], LblTester)
                 /\ allData[j].defect = SourceCell(src[j], LblDefect)
                 /\ allData[j].comments = SourceCell(src[j], LblComment)
                 /\ allData[j].overallStatus =
                        (IF IsBlank(SourceCell(src[j], LblOverallStatus))
                         THEN NotStarted
                         ELSE trim(SourceCell(src[j], LblOverallStatus)))
                 /\ allData[j].iteration =
                        iterationLabel(SourceRawIteration(src[j]))

\* C20 witness: a fetch with a Record under a header row in which one cell
\* is the defect and the comments column, and no cell the status or the
\* iteration column.
C20_Witness ==
    /\ pc = "fetched"
    /\ \E src \in {Sources} :
         \E j \in 1..Len(src) :
            /\ Len(allData) = Len(src)
            /\ FirstColumn(src[j].header, LblDefect) # 0
            /\ FirstColumn(src[j].header, LblDefect) =
                   FirstColumn(src[j].header, LblComment)
            /\ FirstColumn(src[j].header, LblOverallStatus) = 0
            /\ FirstColumn(src[j].header, LblIteration) = 0
            /\ allData[j].defect # EmptyString
            /\ allData[j].comments = allData[j].defect

\* The iteration label a Record counts for: "1" for the empty label.
CaseLabel(r) == IF r.iteration = EmptyString THEN <<"1">> ELSE r.iteration

\* The position in rows of the first Record of ticket.
FirstOfTicket(rows, ticket) ==
    Min({j \in 1..Len(rows) : rows[j].jiraTicket = ticket})

\* C21: for every tester, ticketDetails lists each ticket of the tester's
\* Records once, in the order in which the tickets are first seen, and the
\* count of a ticket is the number of distinct iteration labels of the
\* tester's Records of that ticket, the empty label counting as "1"; the
\* count is at least 1.
C21_IterationCasesPerTicket ==
    report.status = "ok" =>
        \A d \in 1..Len(report.data) :
            \A mine \in {RecordsOf(report.data[d].testerName)},
               td \in {report.data[d].ticketDetails} :
                /\ {td[i].ticket : i \in 1..Len(td)} =
                       {mine[j].jiraTicket : j \in 1..Len(mine)}
                /\ \A i, j \in 1..Len(td) :
                     i < j => /\ td[i].ticket # td[j].ticket
                              /\ FirstOfTicket(mine, td[i].ticket)
                                   < FirstOfTicket(mine, td[j].ticket)
                /\ \A i \in 1..Len(td) :
                     /\ td[i].count >= 1
                     /\ td[i].count =
                            Cardinality({CaseLabel(mine[j]) : j \in
                                {j \in 1..Len(mine) :
                                    mine[j].jiraTicket = td[i].ticket}})

\* C21 witness: a report in which a tester has, for one ticket, a Record
\* without iteration label and one with the label "1", counted as one case.
C21_Witness ==
    /\ report.status = "ok"
    /\ \E d \in 1..Len(report.data) :
         /\ Len(report.data[d].ticketDetails) = 1
         /\ report.data[d].ticketDetails[1].count = 1
         /\ \E i, j \in 1..Len(allData) :
              /\ trim(allData[i].tester) = report.data[d].testerName
              /\ trim(allData[j].tester) = report.data[d].testerName
              /\ allData[i].jiraTicket = report.data[d].ticketDetails[1].ticket
              /\ allData[j].jiraTicket = report.data[d].ticketDetails[1].ticket
              /\ allData[i].iteration = EmptyString
              /\ allData[j].iteration = <<"1">>

\* The 0-based positions of the cells of header that contain label in any
\* case, and the one position fallback when no cell does.
IndexCandidates(header, label, fallback) ==
    LET hits == {i \in 0..(Len(header) - 1) :
                    includes(toLowerCase(header[i + 1]), label)}
    IN  IF hits = {} THEN {fallback} ELSE hits

\* The values a field has in the entries of the index table.
FieldOfEntries(field) ==
    [e \in 1..Len(report.indexStoriesTable.entries) |->
        report.indexStoriesTable.entries[e][field]]

\* The cells the listed rows of the index sheet have at the 0-based column col.
ColumnOfBodyRows(col) ==
    [e \in 1..Len(report.indexStoriesTable.bodyRows) |->
        CellAt(report.indexStoriesTable.bodyRows[e], col + 1)]

\* A field of the index entries is read from one column of the candidates.
ReadFrom(field, candidates) ==
    \E col \in candidates : FieldOfEntries(field) = ColumnOfBodyRows(col)

\* C22: each of the five fields of the index entries is read from a column
\* of the first row of the index sheet whose cell contains the label of the
\* field in any case, and from its own fallback column (0, 1, 3, 2, 4 for
\* test scenario, test execution, test story, description, status) when no
\* cell does, whatever the other four labels match.
C22_IndexColumnsResolvedIndependently ==
    (pc = "saved" /\ report.indexStoriesTable.shown) =>
        \A header \in {valueRanges[Max(ShownIndexSheets)][1]} :
            /\ ReadFrom("testScenario", IndexCandidates(header, LblTestScenario, 0))
            /\ ReadFrom("testExecution", IndexCandidates(header, LblTestExecution, 1))
            /\ ReadFrom("testStory", IndexCandidates(header, LblTestStory, 3))
            /\ ReadFrom("description", IndexCandidates(header, LblDescription, 2))
            /\ ReadFrom("status", IndexCandidates(header, LblStatus, 4))

\* C22 witness: a report of an index sheet whose first row has the labels
\* of the test story, the description and the status in the columns 0, 1, 2
\* and no label of the test scenario and the test execution: the story and
\* the scenario of the entry are both the cell of column 0, the status the
\* cell of column 2.
C22_Witness ==
    /\ pc = "saved"
    /\ report.indexStoriesTable.shown
    /\ valueRanges[1][1] = IndexHeader
    /\ \E e \in 1..Len(report.indexStoriesTable.entries) :
         /\ report.indexStoriesTable.bodyRows[e] = IndexRowS1
         /\ report.indexStoriesTable.entries[e].testStory = IndexRowS1[1]
         /\ report.indexStoriesTable.entries[e].testScenario = IndexRowS1[1]
         /\ report.indexStoriesTable.entries[e].testExecution = IndexRowS1[2]
         /\ report.indexStoriesTable.entries[e].description = IndexRowS1[2]
         /\ report.indexStoriesTable.entries[e].status = IndexRowS1[3]

\* The entries of the index table whose status is s.
EntriesOfStatus(s) ==
    {e \in 1..Len(report.indexStoriesTable.entries) :
        report.indexStoriesTable.entries[e].status = s}

\* The statuses of the entries of the index table that are not blank.
TalliedStatuses ==
    {report.indexStoriesTable.entries[e].status :
        e \in {e \in 1..Len(report.indexStoriesTable.entries) :
                  ~IsBlank(report.indexStoriesTable.entries[e].status)}}

\* C23: the status tally of the index table has one key per status that is
\* not blank among the listed entries, and its value is the number of the
\* entries with exactly that status string (so the values add up to the
\* number of entries with a status that is not blank).
C23_IndexStatusTally ==
    (pc = "saved" /\ report.indexStoriesTable.shown) =>
        \A tally \in {report.indexStoriesTable.statusCountsMap} :
            /\ DOMAIN tally = TalliedStatuses
            /\ \A s \in TalliedStatuses :
                 tally[s] = Num(Cardinality(EntriesOfStatus(s)))

\* The sum of the values f[1], ..., f[n].
RECURSIVE SumUpTo(_, _)
SumUpTo(f, n) == IF n = 0 THEN 0 ELSE SumUpTo(f, n - 1) + f[n]

\* C24: the counts of the views of a report agree: the counts of a tester,
\* one number per status of statusList, add up to the tester's total; the
\* totals of the testers add up to the number of Records of allData; and
\* so do the counts of the statuses in the chart.
C24_CountsConserved ==
    report.status = "ok" =>
        /\ \A d \in 1..Len(report.data) :
             /\ Len(report.data[d].statusCounts) = Len(report.statusList)
             /\ \A i \in 1..Len(report.statusList) :
                  report.data[d].statusCounts[i].type = "number"
             /\ SumUpTo([i \in 1..Len(report.statusList) |->
                            report.data[d].statusCounts[i].n],
                        Len(report.statusList)) = report.data[d].total
        /\ SumUpTo([d \in 1..Len(report.data) |-> report.data[d].total],
                   Len(report.data)) = Len(allData)
        /\ SumUpTo(report.statusCounts, Len(report.statusCounts)) = Len(allData)

\* The number of positions of rows that hold the Record r.
Occurrences(rows, r) == Cardinality({k \in 1..Len(rows) : rows[k] = r})

\* C25: the detail block of every tester lists each Record of the tester
\* exactly once, whatever its status: it has as many rows as the tester's
\* total, and every Record of the tester is in it as often as the tester has
\* it.
C25_DetailListsEveryRecordOnce ==
    report.status = "ok" =>
        \A d \in 1..Len(report.data) :
            \A mine \in {RecordsOf(report.data[d].testerName)},
               listed \in {report.aggregateBlocks[d].sortedRows} :
                /\ report.aggregateBlocks[d].testerName = report.data[d].testerName
                /\ Len(listed) = report.data[d].total
                /\ \A j \in 1..Len(mine) :
                     Occurrences(listed, mine[j]) = Occurrences(mine, mine[j])

\* C26: a call of fetchAllSheetsData that fails leaves allData,
\* sheetSummaries and indexSheetRows as they were before the call.
C26_FailedFetchChangesNothing ==
    [][(pc = "start" /\ pc' = "exit1") =>
          /\ allData' = allData
          /\ sheetSummaries' = sheetSummaries
          /\ indexSheetRows' = indexSheetRows]_vars

\* The id of the spreadsheet is configured in the environment.
IdConfigured == truthy(env.GOOGLE_SHEETS_SPREADSHEET_ID)

\* authenticate throws: no credentials file, or no token file and no auth
\* code that getToken accepts.
AuthenticateFails ==
    \/ env.credentials = "missing"
    \/ /\ env.token = "missing"
       /\ \/ env.GOOGLE_AUTH_CODE = NotSet /\ (env.entry = "runReport" \/ env.argv2 = NotSet)
          \/ env.rejects = "getToken"

\* fetchAllSheetsData throws: a request is rejected or is for an id that is
\* not the one of the spreadsheet, or there are more grids than titles.
FetchFails ==
    \/ env.rejects \in {"get", "batchGet"}
    \/ ~IdConfigured
    \/ Len(valueRanges) > Len(allSheetTitles)

\* saveReports throws for the Records that were fetched: one of them has a
\* tester named as a property of Object.prototype.
SaveFails ==
    \E j \in 1..Len(allData) : trim(allData[j].tester) \in ObjectPrototypeKeys

====
